---- MODULE Spec2Model ----
(***************************************************************************)
(* Model of the PDF label converter service (backend/main.py): the        *)
(* convert_pdf request handler, the storage areas on disk, and the        *)
(* cleanup_old_files sweep called by read_root, health_check and as the   *)
(* background of a served FileResponse.                                   *)
(*                                                                         *)
(* Time is counted in whole minutes.  Lengths are points; values that the *)
(* code computes as floats are kept exactly, as integers scaled by Scale. *)
(* Steps of different requests interleave at the granularity of the       *)
(* filesystem calls, because the storage directories are shared by every  *)
(* worker that serves the application.                                     *)
(***************************************************************************)
EXTENDS Integers, Sequences, FiniteSets, TLC

\* ---------------------------------------------------------------- bounds
MaxTime == 6
MaxPages == 2
\* Request slots: each is one call of convert_pdf.  Pollers call read_root or
\* health_check, again and again.
AllReqs == {"r1", "r2"}
Reqs == {"r1"}
Pollers == {"h1"}
Procs == AllReqs \cup Pollers

\* ------------------------------------------------------ program constants
RETENTION_MINUTES == 5
TARGET_WIDTH == 4 * 72
TARGET_HEIGHT == 6 * 72
Scale == 100000
MM_TO_PT == 283465
DEFAULT_MARGIN_MM == 0 - 24

STORAGE_DIR == "storage"
UPLOAD_DIR == "uploads"
OUTPUT_DIR == "outputs"
TEMP_DIR == "temp"
SweepDirs == <<UPLOAD_DIR, OUTPUT_DIR, TEMP_DIR>>

\* ------------------------------------------------------------ input sets
\* File names are sequences of characters.
Filenames ==
  { <<"a", ".", "p", "d", "f">>,
    <<"A", ".", "P", "d", "F">>,
    <<"a", ".", "t", "x", "t">>,
    <<"p", "d", "f">> }

Margins == {DEFAULT_MARGIN_MM, 100}

\* The i-th page of a test document: odd pages are 200 x 300 points, even
\* pages 100 x 150 points.
TestPage(i) == IF i % 2 = 1 THEN [w |-> 200, h |-> 300] ELSE [w |-> 100, h |-> 150]
TestDoc(n) == [wellformed |-> TRUE, pages |-> [i \in 1..n |-> TestPage(i)]]
Malformed == [wellformed |-> FALSE, pages |-> <<>>]
Uploads == {Malformed} \cup {TestDoc(n) : n \in 1..MaxPages}

\* The inputs of the requests that run side by side
PairFilenames == { <<"a", ".", "p", "d", "f">>, <<"a", ".", "t", "x", "t">> }
PairMargins == {DEFAULT_MARGIN_MM}
PairUploads == {TestDoc(1)}

\* ------------------------------------------------------- string helpers
\* str.lower() on the characters that occur in the file names
LowerChar(c) ==
  CASE c = "A" -> "a"
    [] c = "P" -> "p"
    [] c = "D" -> "d"
    [] c = "F" -> "f"
    [] c = "T" -> "t"
    [] c = "X" -> "x"
    [] OTHER -> c
Lower(s) == [i \in 1..Len(s) |-> LowerChar(s[i])]
EndsWith(s, suffix) ==
  /\ Len(s) >= Len(suffix)
  /\ SubSeq(s, Len(s) - Len(suffix) + 1, Len(s)) = suffix
DotPdf == <<".", "p", "d", "f">>

\* main.py:130  file.filename.lower().endswith('.pdf')
IsPdfName(name) == EndsWith(Lower(name), DotPdf)

\* ------------------------------------------------------------ file system
NoPath == <<>>
EmptyDisk == [p \in {} |-> 0]
Exists(d, p) == p \in DOMAIN d
WriteFile(d, p, t, data) ==
  [q \in (DOMAIN d) \cup {p} |-> IF q = p THEN [mtime |-> t, data |-> data] ELSE d[q]]
RemoveFile(d, p) == [q \in (DOMAIN d) \ {p} |-> d[q]]
DirOf(p) == p[1]
Glob(d, dir) == {p \in DOMAIN d : DirOf(p) = dir}

\* main.py:135-137  both paths carry the clock stamp and a fresh uuid4
GenPaths_NoUuid(ts, u) ==
  [input_path  |-> <<UPLOAD_DIR, ts, 0, "input.pdf">>,
   output_path |-> <<OUTPUT_DIR, ts, 0, "output.pdf">>]
GenPaths(ts, u) ==
  [input_path  |-> <<UPLOAD_DIR, ts, u + 1, "input.pdf">>,
   output_path |-> <<OUTPUT_DIR, ts, u + 2, "output.pdf">>]

\* ---------------------------------------------------------------- geometry
\* main.py:158  margin_points = margin_mm * 2.83465   (scaled by Scale)
MarginPoints(margin_mm) == margin_mm * MM_TO_PT
\* main.py:170  start_x = (width / 2) - margin_points  (scaled by Scale)
StartX(width, margin_mm) == (width * Scale) \div 2 - MarginPoints(margin_mm)
\* main.py:179  src_rect = fitz.Rect(start_x, 0, width, page.rect.height)
SrcRect(page, margin_mm) ==
  [x0 |-> StartX(page.w, margin_mm), y0 |-> 0, x1 |-> page.w * Scale, y1 |-> page.h * Scale]
ClipInRange(clip) == clip.x0 >= 0 /\ clip.x0 < clip.x1

\* ------------------------------------------------------------- responses
NoBody == [wellformed |-> FALSE, pages |-> <<>>]
\* A detail message is a sequence of text pieces, so that an f-string is
\* the concatenation of its pieces.
HTTPException(status, detail) ==
  [kind |-> "HTTPException", status |-> status, detail |-> detail]
\* str(e) of an HTTPException: "<status_code>: <detail>"
Str(e) == <<ToString(e.status), ": ">> \o e.detail
\* main.py:231-234  the outermost handler turns every exception into a 500
\* whose detail is f"Error processing request: {str(e)}"
OuterExcept_ClientError(e) == HTTPException(400, <<"Error processing request: ">> \o Str(e))
OuterExcept(e) == HTTPException(500, <<"Error processing request: ">> \o Str(e))
\* the framework's reply to an HTTPException leaving the handler
ErrorResponse(e) == [status |-> e.status, body |-> NoBody, detail |-> e.detail]
\* main.py:197, 216  str(e) of the exception caught at line 213: the text of
\* line 197 for a missing output, the library's own text otherwise
ExceptionText(stage) ==
  CASE stage = "missing_output" -> "Output file was not created"
    [] stage = "storing_output" -> "cannot save document"
    [] OTHER -> "cannot open or show document"
\* main.py:216  f"Error processing PDF: {str(e)}"
ProcessingDetail(stage) == <<"Error processing PDF: ", ExceptionText(stage)>>

VARIABLES
  now,       \* the wall clock, in minutes
  nextUuid,  \* how many uuid4 values were drawn
  disk,      \* the files of the storage areas: path -> [mtime, data]
  req,       \* the convert_pdf calls
  sweep,     \* the cleanup_old_files calls
  boot       \* the setup_storage call made while the module is imported

vars == <<now, nextUuid, disk, req, sweep, boot>>

IdleReq ==
  [pc |-> "idle", filename |-> <<>>, margin_mm |-> 0, upload |-> Malformed,
   input_path |-> NoPath, output_path |-> NoPath,
   src |-> <<>>, srcOpen |-> FALSE, doc |-> <<>>, docOpen |-> FALSE,
   page_num |-> 0, pending |-> "none", responses |-> <<>>,
   failed |-> "none", stored |-> FALSE, saved |-> FALSE,
   delFailed |-> FALSE, delRaised |-> FALSE, touched |-> {}, servedFrom |-> NoPath,
   disposeTried |-> {}, detail |-> <<>>]

\* ran, removed and unlinkFailed tell what the last sweep of the process did
IdleSweep ==
  [pc |-> "idle", threshold |-> 0, dir |-> 0, files |-> {}, cur |-> NoPath,
   ran |-> FALSE, removed |-> {}, unlinkFailed |-> {}]

\* Files that an earlier run of the service, or somebody else, left in the
\* storage tree: one in the temp area and one beside the three areas.
StrayTemp == <<TEMP_DIR, 0, 0, "stray">>
StrayOutside == <<STORAGE_DIR, 0, 0, "stray">>
StrayDisk ==
  [p \in {StrayTemp, StrayOutside} |-> [mtime |-> 0, data |-> Malformed]]

\* ------------------------------------------------------------------ startup
\* main.py:48  the directories that are created, in this order
SetupDirs == <<STORAGE_DIR, UPLOAD_DIR, OUTPUT_DIR, TEMP_DIR>>
\* main.py:54  the directories that are probed, in this order
ProbeDirs == <<UPLOAD_DIR, OUTPUT_DIR, TEMP_DIR>>
\* main.py:55  test_file = directory / ".test"
ProbeFile(d) == <<d, 0, 0, ".test">>

\* setup_storage has returned (main.py:70): the four directories exist and
\* a file could be created and removed in each of the three areas.  dirs are
\* the directories that exist, readonly those in which no file can be made,
\* probed those whose probe passed.
Started ==
  [pc |-> "up", i |-> 0, dirs |-> {STORAGE_DIR, UPLOAD_DIR, OUTPUT_DIR, TEMP_DIR},
   readonly |-> {}, probed |-> {UPLOAD_DIR, OUTPUT_DIR, TEMP_DIR}]
\* main.py:90-120  the routes are registered after line 70 has returned
Up == boot.pc = "up"

\* A probe file that an earlier, failed start left in the temp area.
StaleProbeDisk ==
  [p \in {ProbeFile(TEMP_DIR)} |-> [mtime |-> 0, data |-> Malformed]]

Init ==
  /\ now = 0
  /\ nextUuid = 0
  /\ disk \in {EmptyDisk, StrayDisk}
  /\ req = [r \in AllReqs |-> IdleReq]
  /\ sweep = [p \in Procs |-> IdleSweep]
  /\ boot = Started

\* The process starts: any of the directories may exist already, with the
\* storage root if an area exists, and any of the areas may be unwritable.
StartInit ==
  /\ now = 0
  /\ nextUuid = 0
  /\ disk \in {EmptyDisk, StrayDisk, StaleProbeDisk}
  /\ req = [r \in AllReqs |-> IdleReq]
  /\ sweep = [p \in Procs |-> IdleSweep]
  /\ \E ds \in SUBSET {STORAGE_DIR, UPLOAD_DIR, OUTPUT_DIR, TEMP_DIR},
        ro \in SUBSET {UPLOAD_DIR, OUTPUT_DIR, TEMP_DIR} :
       /\ ds # {} => STORAGE_DIR \in ds
       /\ \A f \in DOMAIN disk : DirOf(f) \in ds
       /\ boot = [pc |-> "mkdir", i |-> 1, dirs |-> ds, readonly |-> ro, probed |-> {}]

\* setup_storage raises and the import of the module fails (main.py:63-70)
StartupFailed(b) == [b EXCEPT !.pc = "failed"]

\* main.py:48-51  directory.mkdir(parents=True, exist_ok=True) and
\* os.chmod(directory, 0o777) for the next directory; either call may raise
MakeDir ==
  /\ boot.pc = "mkdir"
  /\ LET d == SetupDirs[boot.i]
         made == [boot EXCEPT !.dirs = @ \cup {d}]
     IN \E outcome \in {"ok", "mkdir_raises", "chmod_raises"} :
          boot' = CASE outcome = "mkdir_raises" -> StartupFailed(boot)
                    [] outcome = "chmod_raises" -> StartupFailed(made)
                    [] OTHER -> IF boot.i = Len(SetupDirs)
                                THEN [made EXCEPT !.pc = "touch", !.i = 1]
                                ELSE [made EXCEPT !.i = @ + 1]
  /\ UNCHANGED <<now, nextUuid, disk, req, sweep>>

ProbeTouch_Swallow ==
  /\ boot.pc = "touch"
  /\ LET d == ProbeDirs[boot.i] IN
     IF d \in boot.readonly
     THEN /\ boot' = IF boot.i = Len(ProbeDirs)
                     THEN [boot EXCEPT !.pc = "up", !.i = 0]
                     ELSE [boot EXCEPT !.i = @ + 1]
          /\ disk' = disk
     ELSE /\ boot' = [boot EXCEPT !.pc = "unlink"]
          /\ disk' = WriteFile(disk, ProbeFile(d), now,
                               IF Exists(disk, ProbeFile(d))
                               THEN disk[ProbeFile(d)].data ELSE Malformed)
  /\ UNCHANGED <<now, nextUuid, req, sweep>>
\* main.py:55-57  test_file.touch() in the next area: it creates the file, or
\* updates the time of one that is there, and raises in an unwritable area
ProbeTouch ==
  /\ boot.pc = "touch"
  /\ LET d == ProbeDirs[boot.i] IN
     IF d \in boot.readonly
     THEN /\ boot' = StartupFailed(boot)
          /\ disk' = disk
     ELSE /\ boot' = [boot EXCEPT !.pc = "unlink"]
          /\ disk' = WriteFile(disk, ProbeFile(d), now,
                               IF Exists(disk, ProbeFile(d))
                               THEN disk[ProbeFile(d)].data ELSE Malformed)
  /\ UNCHANGED <<now, nextUuid, req, sweep>>

\* main.py:58-62  test_file.unlink(); the loop goes on to the next area, and
\* after the last one setup_storage returns.  An unlink that raises is
\* re-raised like a failed touch.
ProbeUnlink ==
  /\ boot.pc = "unlink"
  /\ LET d == ProbeDirs[boot.i] IN
     \E ok \in BOOLEAN :
       IF ok
       THEN /\ disk' = RemoveFile(disk, ProbeFile(d))
            /\ boot' = IF boot.i = Len(ProbeDirs)
                       THEN [boot EXCEPT !.pc = "up", !.i = 0, !.probed = @ \cup {d}]
                       ELSE [boot EXCEPT !.pc = "touch", !.i = @ + 1,
                                         !.probed = @ \cup {d}]
       ELSE /\ disk' = disk
            /\ boot' = StartupFailed(boot)
  /\ UNCHANGED <<now, nextUuid, req, sweep>>

\* The wall clock advances, by the retention window or by one minute more.
TickSteps == {RETENTION_MINUTES, RETENTION_MINUTES + 1}
Tick ==
  /\ \E d \in TickSteps :
       /\ now + d <= MaxTime
       /\ now' = now + d
  /\ UNCHANGED <<boot, nextUuid, disk, req, sweep>>

Validate_ReserveFirst(r, names, margins, uploads) ==
  /\ Up
  /\ req[r].pc = "idle"
  /\ \E name \in names, m \in margins, up \in uploads :
       LET paths == [input_path  |-> <<UPLOAD_DIR, now, nextUuid + 1, "input.pdf">>,
                     output_path |-> <<OUTPUT_DIR, now, nextUuid + 2, "output.pdf">>]
           rq == [req[r] EXCEPT !.filename = name, !.margin_mm = m, !.upload = up,
                                !.input_path = paths.input_path,
                                !.output_path = paths.output_path]
       IN req' = [req EXCEPT ![r] =
            IF ~IsPdfName(name)
            THEN [rq EXCEPT !.pc = "done", !.failed = "validating",
                            !.responses = Append(@, [status |-> 500, body |-> NoBody, detail |-> <<>>])]
            ELSE [rq EXCEPT !.pc = "save_upload"]]
  /\ nextUuid' = nextUuid + 2
  /\ UNCHANGED <<boot, now, disk, sweep>>
\* main.py:125-140  a request arrives; the name is validated and, if it is
\* accepted, the two paths are generated.  The HTTPException(400) of line 132
\* is raised inside the outer try and reaches the handler of line 231.
Validate(r, names, margins, uploads) ==
  /\ Up
  /\ req[r].pc = "idle"
  /\ \E name \in names, m \in margins, up \in uploads :
       LET rq == [req[r] EXCEPT !.filename = name, !.margin_mm = m, !.upload = up] IN
       IF ~IsPdfName(name)
       THEN /\ req' = [req EXCEPT ![r] =
                 [rq EXCEPT !.pc = "done", !.failed = "validating",
                            !.responses = Append(@, ErrorResponse(OuterExcept(HTTPException(400, <<"File must be a PDF">>))))]]
            /\ UNCHANGED nextUuid
       ELSE LET paths == GenPaths(now, nextUuid) IN
            /\ req' = [req EXCEPT ![r] =
                 [rq EXCEPT !.pc = "save_upload",
                            !.input_path = paths.input_path,
                            !.output_path = paths.output_path]]
            /\ nextUuid' = nextUuid + 2
  /\ UNCHANGED <<boot, now, disk, sweep>>

\* main.py:142-151  content = await file.read(); input_path.write_bytes(content)
\* The write can succeed, fail before the file is created, or fail after a
\* truncated file was created.  A failure raises HTTPException(500) outside
\* the try/finally of line 153, so only the handler of line 231 sees it.
SaveUpload(r) ==
  /\ req[r].pc = "save_upload"
  /\ \E outcome \in {"ok", "fail_nofile", "fail_partial"} :
       LET rq == req[r] IN
       CASE outcome = "ok" ->
              /\ disk' = WriteFile(disk, rq.input_path, now, rq.upload)
              /\ req' = [req EXCEPT ![r] =
                   [rq EXCEPT !.pc = "transform", !.stored = TRUE,
                              !.touched = @ \cup {rq.input_path}]]
         [] outcome = "fail_nofile" ->
              /\ disk' = disk
              /\ req' = [req EXCEPT ![r] =
                   [rq EXCEPT !.pc = "done", !.failed = "storing_input",
                              !.responses = Append(@, ErrorResponse(OuterExcept(
                                   HTTPException(500, <<"Error saving uploaded file">>))))]]
         [] outcome = "fail_partial" ->
              /\ disk' = WriteFile(disk, rq.input_path, now, Malformed)
              /\ req' = [req EXCEPT ![r] =
                   [rq EXCEPT !.pc = "done", !.failed = "storing_input",
                              !.touched = @ \cup {rq.input_path},
                              !.responses = Append(@, ErrorResponse(OuterExcept(
                                   HTTPException(500, <<"Error saving uploaded file">>))))]]
  /\ UNCHANGED <<boot, now, nextUuid, sweep>>


\* ------------------------------------------------------------ conversion
\* main.py:174-187  one output page: a fresh 288 x 432 canvas on which the
\* clip of source page page_num is shown
ComposePage(src, page_num, margin_mm) ==
  [w |-> TARGET_WIDTH, h |-> TARGET_HEIGHT, from |-> page_num,
   clip |-> SrcRect(src[page_num + 1], margin_mm), painted |-> TRUE]
\* main.py:174-177  the canvas of a page whose show_pdf_page call raised
BlankPage(src, page_num, margin_mm) ==
  [ComposePage(src, page_num, margin_mm) EXCEPT !.painted = FALSE]

\* main.py:166-188  for page_num in range(stop): append the composed page
RECURSIVE PageLoop(_, _, _, _, _)
PageLoop(src, margin_mm, page_num, stop, doc) ==
  IF page_num >= stop THEN doc
  ELSE PageLoop(src, margin_mm, page_num + 1, stop,
                Append(doc, ComposePage(src, page_num, margin_mm)))

ComposePages_DropLast(src, margin_mm) == PageLoop(src, margin_mm, 0, Len(src) - 1, <<>>)
ComposePages(src, margin_mm) == PageLoop(src, margin_mm, 0, Len(src), <<>>)

\* main.py:213-216  an exception inside the conversion becomes
\* HTTPException(500), which is pending while the finally block runs
ProcessingError(rq, stage) ==
  [rq EXCEPT !.pc = "fin_in_exists", !.pending = "http500", !.failed = stage,
              !.detail = ProcessingDetail(stage)]

\* main.py:156-188  open the source, open the destination, compose the pages.
\* Opening fails for a missing or malformed input; show_pdf_page (a library
\* call) may raise on any page, failAt = 0 meaning that no page fails.
Transform(r) ==
  /\ req[r].pc = "transform"
  /\ LET rq == req[r] IN
     IF ~Exists(disk, rq.input_path) \/ ~disk[rq.input_path].data.wellformed
     THEN req' = [req EXCEPT ![r] = ProcessingError(rq, "transforming")]
     ELSE LET src == disk[rq.input_path].data.pages
              opened == [rq EXCEPT !.src = src, !.srcOpen = TRUE, !.docOpen = TRUE]
          IN \E failAt \in 0..Len(src) :
               IF failAt = 0
               THEN req' = [req EXCEPT ![r] =
                      [opened EXCEPT !.pc = "save_doc", !.page_num = Len(src),
                                     !.doc = ComposePages(src, rq.margin_mm)]]
               ELSE req' = [req EXCEPT ![r] =
                      [ProcessingError(opened, "transforming") EXCEPT
                         !.page_num = failAt - 1,
                         !.doc = Append(PageLoop(src, rq.margin_mm, 0, failAt - 1, <<>>),
                                        BlankPage(src, failAt - 1, rq.margin_mm))]]
  /\ UNCHANGED <<boot, now, nextUuid, disk, sweep>>

\* main.py:190-194  doc.save(output_path); doc.close(); src.close()
\* A save that raises leaves no file or a truncated one, and skips both
\* close calls.
SaveDoc(r) ==
  /\ req[r].pc = "save_doc"
  /\ \E outcome \in {"ok", "fail_nofile", "fail_partial"} :
       LET rq == [req[r] EXCEPT !.touched = @ \cup {req[r].output_path}] IN
       CASE outcome = "ok" ->
              /\ disk' = WriteFile(disk, rq.output_path, now,
                                   [wellformed |-> TRUE, pages |-> rq.doc])
              /\ req' = [req EXCEPT ![r] =
                   [rq EXCEPT !.pc = "check_output", !.saved = TRUE,
                              !.docOpen = FALSE, !.srcOpen = FALSE]]
         [] outcome = "fail_nofile" ->
              /\ disk' = disk
              /\ req' = [req EXCEPT ![r] = ProcessingError(rq, "storing_output")]
         [] outcome = "fail_partial" ->
              /\ disk' = WriteFile(disk, rq.output_path, now, Malformed)
              /\ req' = [req EXCEPT ![r] = ProcessingError(rq, "storing_output")]
  /\ UNCHANGED <<boot, now, nextUuid, sweep>>

CheckOutput_NoCheck(r) ==
  /\ req[r].pc = "check_output"
  /\ req' = [req EXCEPT ![r] =
        [req[r] EXCEPT !.pc = "fin_in_exists", !.pending = "return"]]
  /\ UNCHANGED <<boot, now, nextUuid, disk, sweep>>
\* main.py:196-211  the existence check, stat, chmod, and the FileResponse
\* that is pending as the return value while the finally block runs
CheckOutput(r) ==
  /\ req[r].pc = "check_output"
  /\ LET rq == req[r] IN
     IF ~Exists(disk, rq.output_path)
     THEN req' = [req EXCEPT ![r] = ProcessingError(rq, "missing_output")]
     ELSE req' = [req EXCEPT ![r] =
            [rq EXCEPT !.pc = "fin_in_exists", !.pending = "return"]]
  /\ UNCHANGED <<boot, now, nextUuid, disk, sweep>>

\* The end of the finally block (main.py:218-229): a pending HTTPException
\* goes on to the handler of line 231, a pending return value is returned.
ExitFinally(rq) ==
  IF rq.pending = "http500"
  THEN [rq EXCEPT !.pc = "done",
                  !.responses = Append(@, ErrorResponse(OuterExcept(HTTPException(500, rq.detail))))]
  ELSE [rq EXCEPT !.pc = "serve"]

FinInExists_Skip(r) ==
  /\ req[r].pc = "fin_in_exists"
  /\ req' = [req EXCEPT ![r].pc = "fin_out_exists"]
  /\ UNCHANGED <<boot, now, nextUuid, disk, sweep>>
\* main.py:221  if input_path.exists():
FinInExists(r) ==
  /\ req[r].pc = "fin_in_exists"
  /\ req' = [req EXCEPT ![r] =
        [req[r] EXCEPT !.disposeTried = @ \cup {"input"},
                       !.pc = IF Exists(disk, req[r].input_path)
                              THEN "fin_in_unlink" ELSE "fin_out_exists"]]
  /\ UNCHANGED <<boot, now, nextUuid, disk, sweep>>

\* main.py:222  input_path.unlink(); an exception (the file vanished, or the
\* operating system refused) is logged at line 227 and ends the block
FinInUnlink(r) ==
  /\ req[r].pc = "fin_in_unlink"
  /\ LET rq == [req[r] EXCEPT !.touched = @ \cup {req[r].input_path}] IN
     IF ~Exists(disk, rq.input_path)
     THEN /\ req' = [req EXCEPT ![r] = ExitFinally([rq EXCEPT !.delRaised = TRUE])]
          /\ disk' = disk
     ELSE \E ok \in BOOLEAN :
            IF ok
            THEN /\ disk' = RemoveFile(disk, rq.input_path)
                 /\ req' = [req EXCEPT ![r] = [rq EXCEPT !.pc = "fin_out_exists"]]
            ELSE /\ disk' = disk
                 /\ req' = [req EXCEPT ![r] =
                      ExitFinally([rq EXCEPT !.delRaised = TRUE, !.delFailed = TRUE])]
  /\ UNCHANGED <<boot, now, nextUuid, sweep>>

FinOutExists_Skip(r) ==
  /\ req[r].pc = "fin_out_exists"
  /\ req' = [req EXCEPT ![r] =
        ExitFinally([req[r] EXCEPT !.disposeTried = @ \cup {"output"}])]
  /\ UNCHANGED <<boot, now, nextUuid, disk, sweep>>
\* main.py:224  if output_path.exists():
FinOutExists(r) ==
  /\ req[r].pc = "fin_out_exists"
  /\ LET rq == [req[r] EXCEPT !.disposeTried = @ \cup {"output"}] IN
     req' = [req EXCEPT ![r] =
        IF Exists(disk, rq.output_path)
        THEN [rq EXCEPT !.pc = "fin_out_unlink"]
        ELSE ExitFinally(rq)]
  /\ UNCHANGED <<boot, now, nextUuid, disk, sweep>>

\* main.py:225  output_path.unlink()
FinOutUnlink(r) ==
  /\ req[r].pc = "fin_out_unlink"
  /\ LET rq == [req[r] EXCEPT !.touched = @ \cup {req[r].output_path}] IN
     IF ~Exists(disk, rq.output_path)
     THEN /\ req' = [req EXCEPT ![r] = ExitFinally([rq EXCEPT !.delRaised = TRUE])]
          /\ disk' = disk
     ELSE \E ok \in BOOLEAN :
            IF ok
            THEN /\ disk' = RemoveFile(disk, rq.output_path)
                 /\ req' = [req EXCEPT ![r] = ExitFinally(rq)]
            ELSE /\ disk' = disk
                 /\ req' = [req EXCEPT ![r] =
                      ExitFinally([rq EXCEPT !.delRaised = TRUE, !.delFailed = TRUE])]
  /\ UNCHANGED <<boot, now, nextUuid, sweep>>

\* ------------------------------------------------------------------ serving
\* main.py:206-211  the framework sends the returned FileResponse: it stats
\* the path, replies 500 without a body if the file is gone, and otherwise
\* sends the file and then calls the background, cleanup_old_files.
Serve(r) ==
  /\ req[r].pc = "serve"
  /\ LET rq == req[r] IN
     IF ~Exists(disk, rq.output_path)
     THEN req' = [req EXCEPT ![r] =
            [rq EXCEPT !.pc = "done",
                       !.responses = Append(@, [status |-> 500, body |-> NoBody,
                                                detail |-> <<"Internal Server Error">>])]]
     ELSE req' = [req EXCEPT ![r] =
            [rq EXCEPT !.pc = "background", !.servedFrom = rq.output_path,
                       !.touched = @ \cup {rq.output_path},
                       !.responses = Append(@, [status |-> 200,
                                                body |-> disk[rq.output_path].data,
                                                detail |-> <<>>])]]
  /\ UNCHANGED <<boot, now, nextUuid, disk, sweep>>

\* -------------------------------------------------------------------- sweep
\* main.py:76  threshold = datetime.now() - timedelta(minutes=5)
Threshold(t) == t - RETENTION_MINUTES
\* main.py:81  datetime.fromtimestamp(file_path.stat().st_mtime) < threshold
IsOld_Inclusive(mtime, threshold) == mtime <= threshold
IsOld(mtime, threshold) == mtime < threshold

\* main.py:86-88  cleanup_old_files returns
Returned(sw) ==
  [sw EXCEPT !.pc = "idle", !.dir = 0, !.files = {}, !.cur = NoPath, !.ran = TRUE]

\* main.py:78-79  the loop reaches directory number i and lists it; an empty
\* directory is left at once, and after the last one the sweep is over
RECURSIVE EnterDir(_, _, _)
EnterDir(sw, d, i) ==
  IF i > Len(SweepDirs) THEN Returned(sw)
  ELSE IF Glob(d, SweepDirs[i]) = {} THEN EnterDir(sw, d, i + 1)
  ELSE [sw EXCEPT !.pc = "scan", !.dir = i, !.files = Glob(d, SweepDirs[i]),
                  !.cur = NoPath]

\* the loop goes on to the next listed file, or to the next directory
Continue(sw, d) ==
  IF sw.files = {} THEN EnterDir(sw, d, sw.dir + 1) ELSE sw

\* A request's background sweep ends: the request is finished.
EndOfSweep(p, sw) ==
  IF p \in AllReqs /\ sw.pc = "idle"
  THEN [req EXCEPT ![p].pc = "done"]
  ELSE req

\* main.py:72-79  cleanup_old_files starts: called by read_root or
\* health_check (a poller), or as the background of a sent FileResponse
SweepBegin(p) ==
  /\ Up
  /\ sweep[p].pc = "idle"
  /\ p \in AllReqs => req[p].pc = "background"
  /\ LET sw == EnterDir([IdleSweep EXCEPT !.threshold = Threshold(now)], disk, 1) IN
       /\ sweep' = [sweep EXCEPT ![p] = sw]
       /\ req' = EndOfSweep(p, sw)
  /\ UNCHANGED <<boot, now, nextUuid, disk>>

\* main.py:79-81  the next listed file is examined; a stat that raises (the
\* file is gone) is logged at line 85 and the loop goes on
SweepStat(p) ==
  /\ sweep[p].pc = "scan"
  /\ \E f \in sweep[p].files :
       LET rest == [sweep[p] EXCEPT !.files = @ \ {f}]
           sw == IF Exists(disk, f) /\ IsOld(disk[f].mtime, rest.threshold)
                 THEN [rest EXCEPT !.pc = "unlink", !.cur = f]
                 ELSE Continue(rest, disk)
       IN /\ sweep' = [sweep EXCEPT ![p] = sw]
          /\ req' = EndOfSweep(p, sw)
  /\ UNCHANGED <<boot, now, nextUuid, disk>>

SweepUnlink_AbortOnError(p) ==
  /\ sweep[p].pc = "unlink"
  /\ LET f == sweep[p].cur
         rest == [sweep[p] EXCEPT !.pc = "scan", !.cur = NoPath]
     IN \E ok \in BOOLEAN :
          IF ok /\ Exists(disk, f)
          THEN /\ disk' = RemoveFile(disk, f)
               /\ LET sw == Continue([rest EXCEPT !.removed = @ \cup {f}], disk') IN
                    /\ sweep' = [sweep EXCEPT ![p] = sw]
                    /\ req' = EndOfSweep(p, sw)
          ELSE /\ disk' = disk
               /\ LET sw == Returned([rest EXCEPT !.unlinkFailed = @ \cup {f}]) IN
                    /\ sweep' = [sweep EXCEPT ![p] = sw]
                    /\ req' = EndOfSweep(p, sw)
  /\ UNCHANGED <<boot, now, nextUuid>>
\* main.py:82-85  file_path.unlink(); an exception (the file is gone, or the
\* operating system refused) is logged and the loop goes on
SweepUnlink(p) ==
  /\ sweep[p].pc = "unlink"
  /\ LET f == sweep[p].cur
         rest == [sweep[p] EXCEPT !.pc = "scan", !.cur = NoPath]
     IN \E ok \in BOOLEAN :
          IF ok /\ Exists(disk, f)
          THEN /\ disk' = RemoveFile(disk, f)
               /\ LET sw == Continue([rest EXCEPT !.removed = @ \cup {f}], disk') IN
                    /\ sweep' = [sweep EXCEPT ![p] = sw]
                    /\ req' = EndOfSweep(p, sw)
          ELSE /\ disk' = disk
               /\ LET sw == Continue([rest EXCEPT !.unlinkFailed = @ \cup {f}], disk') IN
                    /\ sweep' = [sweep EXCEPT ![p] = sw]
                    /\ req' = EndOfSweep(p, sw)
  /\ UNCHANGED <<boot, now, nextUuid>>

\* ------------------------------------------------------------ specification
\* the steps of convert_pdf after the request was validated
HandlerStep(r) ==
  \/ SaveUpload(r)
  \/ Transform(r)
  \/ SaveDoc(r)
  \/ CheckOutput(r)
  \/ FinInExists(r)
  \/ FinInUnlink(r)
  \/ FinOutExists(r)
  \/ FinOutUnlink(r)
  \/ Serve(r)

\* the steps of cleanup_old_files
SweepStep(p) ==
  \/ SweepBegin(p)
  \/ SweepStat(p)
  \/ SweepUnlink(p)

\* One convert request with any of the inputs, and a poller.
Next ==
  \/ Tick
  \/ \E r \in Reqs : Validate(r, Filenames, Margins, Uploads)
  \/ \E r \in Reqs : HandlerStep(r)
  \/ \E p \in Reqs \cup Pollers : SweepStep(p)

Spec == Init /\ [][Next]_vars

\* Two convert requests side by side.
PairNext ==
  \/ Tick
  \/ \E r \in AllReqs : Validate(r, PairFilenames, PairMargins, PairUploads)
  \/ \E r \in AllReqs : HandlerStep(r)
  \/ \E p \in AllReqs : SweepStep(p)

PairSpec == Init /\ [][PairNext]_vars

\* The process from its start: setup_storage, and then the service.
SetupStep ==
  \/ MakeDir
  \/ ProbeTouch
  \/ ProbeUnlink

StartNext ==
  \/ SetupStep
  \/ Next

StartSpec == StartInit /\ [][StartNext]_vars

\* What the scheduling guarantees: the clock advances, a handler that was
\* entered runs on, a sweep that was called runs on, and the background of a
\* sent response is called.  Nothing makes a request or a poll arrive.
FairSpec ==
  /\ Spec
  /\ WF_vars(Tick)
  /\ \A r \in Reqs : WF_vars(HandlerStep(r)) /\ WF_vars(SweepStep(r))
  /\ \A h \in Pollers : WF_vars(SweepStat(h) \/ SweepUnlink(h))

\* ------------------------------------------------------------------ claims
Finished(r) == req[r].pc = "done"
\* the handler has returned or raised
HandlerOver(r) == req[r].pc \in {"serve", "background", "done"}
OwnPaths(r) == {req[r].input_path, req[r].output_path}

\* C1: a request whose file name does not end in ".pdf" (ignoring case) is
\* answered with status 400, and only a validation failure is ever answered
\* with status 400.
C1_RejectedNameGets400 ==
  \A r \in AllReqs :
    /\ (Finished(r) /\ ~IsPdfName(req[r].filename)) =>
         (Len(req[r].responses) = 1 /\ req[r].responses[1].status = 400)
    /\ \A i \in DOMAIN req[r].responses :
         req[r].responses[i].status = 400 => req[r].failed = "validating"

\* C2: when upload, conversion and save all succeed, the output is still on
\* disk when it is served and the caller gets status 200 with the converted
\* document.
C2_SavedOutputIsServed ==
  \A r \in AllReqs :
    /\ (req[r].pc = "serve" /\ req[r].saved /\ ~req[r].delRaised) =>
         Exists(disk, req[r].output_path)
    /\ (req[r].pc \in {"background", "done"} /\ req[r].saved /\ req[r].failed = "none") =>
         /\ Len(req[r].responses) = 1
         /\ req[r].responses[1].status = 200
         /\ req[r].responses[1].body =
              [wellformed |-> TRUE,
               pages |-> ComposePages(req[r].upload.pages, req[r].margin_mm)]

\* C3: a request that fails while storing the input, converting or storing
\* the output gets exactly one response, with status 500 and no document.
FailedInPipeline(r) ==
  req[r].failed \in {"storing_input", "transforming", "storing_output", "missing_output"}
C3_FailureIsOneServerError ==
  \A r \in AllReqs :
    FailedInPipeline(r) =>
      /\ Len(req[r].responses) <= 1
      /\ Finished(r) => Len(req[r].responses) = 1
      /\ \A i \in DOMAIN req[r].responses :
           req[r].responses[i].status = 500 /\ req[r].responses[i].body = NoBody
C3_Witness ==
  \E r \in AllReqs :
    /\ Finished(r)
    /\ req[r].upload = Malformed
    /\ req[r].failed = "transforming"
    /\ Len(req[r].responses) = 1
    /\ req[r].responses[1].status = 500
    /\ req[r].responses[1].body = NoBody

\* C4: once the input was fully stored, it is absent from the upload area
\* when the handler is over, on every exit path, unless a delete failed.
C4_InputAbsentAfterHandler ==
  \A r \in AllReqs :
    (req[r].stored /\ HandlerOver(r) /\ ~req[r].delFailed) =>
      ~Exists(disk, req[r].input_path)
C4_Witness ==
  \E r \in AllReqs :
    /\ Finished(r) /\ req[r].stored /\ ~req[r].delFailed
    /\ req[r].failed = "transforming" /\ req[r].srcOpen
    /\ ~Exists(disk, req[r].input_path)

\* C5: the saved document has as many pages as the source, its i-th page
\* shows the clip of the i-th source page, and every page is 288 x 432.
C5_PagesOneToOne ==
  \A r \in AllReqs :
    req[r].saved =>
      /\ req[r].upload.wellformed
      /\ Len(req[r].doc) = Len(req[r].upload.pages)
      /\ \A i \in 1..Len(req[r].upload.pages) :
           /\ req[r].doc[i].w = 288 /\ req[r].doc[i].h = 432
           /\ req[r].doc[i].painted
           /\ req[r].doc[i].from = i - 1
           /\ req[r].doc[i].clip = SrcRect(req[r].upload.pages[i], req[r].margin_mm)
C5_Witness ==
  \E r \in AllReqs :
    /\ req[r].saved
    /\ Len(req[r].doc) = 2
    /\ req[r].upload.pages[1] # req[r].upload.pages[2]
    /\ Exists(disk, req[r].output_path)
    /\ disk[req[r].output_path].data.pages = req[r].doc

\* C6: the step that rejects a request for its file name generates no path
\* and leaves the disk as it was.
RejectedNow(r) ==
  req[r].pc = "idle" /\ req'[r].pc # "idle" /\ ~IsPdfName(req'[r].filename)
C6_RejectionTouchesNothing ==
  [][\A r \in AllReqs :
       RejectedNow(r) =>
         /\ disk' = disk
         /\ nextUuid' = nextUuid
         /\ req'[r].input_path = NoPath /\ req'[r].output_path = NoPath
         /\ req'[r].touched = {}
         /\ Finished(r)']_vars
C6_Witness ==
  \E r \in AllReqs :
    /\ Finished(r) /\ req[r].failed = "validating"
    /\ req[r].input_path = NoPath
    /\ \E s \in AllReqs \ {r} : Exists(disk, req[s].input_path)

\* C7: every page that was composited had its clip start inside
\* [0, source width).
C7_ClipInRangeOrRejected ==
  \A r \in AllReqs :
    \A i \in DOMAIN req[r].doc :
      req[r].doc[i].painted => ClipInRange(req[r].doc[i].clip)

\* C8: the paths reserved by the requests are pairwise distinct, and what a
\* request writes, reads and disposes is among its own two paths and among
\* no other request's.
Reserved(r) == req[r].input_path # NoPath
C8_PathsDisjoint ==
  \A r \in AllReqs :
    Reserved(r) =>
      /\ req[r].input_path # req[r].output_path
      /\ req[r].touched \subseteq OwnPaths(r)
      /\ \A s \in AllReqs \ {r} :
           Reserved(s) => OwnPaths(r) \cap (OwnPaths(s) \cup req[s].touched) = {}
C8_Witness ==
  \E r, s \in AllReqs :
    /\ r # s
    /\ Reserved(r) /\ Reserved(s)
    /\ req[r].input_path[2] = req[s].input_path[2]
    /\ ~HandlerOver(r) /\ ~HandlerOver(s)
    /\ req[r].touched # {} /\ req[s].touched # {}

\* C9: an artifact that a finished request left behind and that is older
\* than the retention window is eventually deleted even if no further
\* request arrives: from then on it is deleted, or else a request arrives
\* (no convert request is left to arrive, so that is a poll).
LeftOld(r) ==
  /\ Finished(r)
  /\ Exists(disk, req[r].input_path)
  /\ IsOld(disk[req[r].input_path].mtime, Threshold(now))
PollRunning == \E h \in Pollers : sweep[h].pc # "idle"
C9_LeftoverSweptWithoutRequests ==
  \A r \in Reqs : LeftOld(r) ~> (~Exists(disk, req[r].input_path) \/ PollRunning)

\* C10: a request whose upload could not be written ends with status 500
\* and leaves no input file behind.
C10_PartialInputDisposed ==
  \A r \in AllReqs :
    (Finished(r) /\ req[r].failed = "storing_input") =>
      /\ Len(req[r].responses) = 1
      /\ req[r].responses[1].status = 500
      /\ req[r].responses[1].body = NoBody
      /\ ~Exists(disk, req[r].input_path)

\* C11: whenever the handler is over after the input was stored, a dispose
\* was attempted on the input and on the output, also when disposing the
\* input raised.
C11_BothDisposesAttempted ==
  \A r \in AllReqs :
    (HandlerOver(r) /\ req[r].stored) => req[r].disposeTried = {"input", "output"}

\* C12: when the handler is over, the source document and the destination
\* document are closed.
C12_HandlesClosed ==
  \A r \in AllReqs :
    HandlerOver(r) => (~req[r].srcOpen /\ ~req[r].docOpen)

\* C13: no step of a sweep deletes the input of a request that has stored it
\* and not yet converted it, nor the output of a request that has saved it
\* and not yet served it.
SweptAway(f) ==
  /\ Exists(disk, f) /\ ~Exists(disk', f)
  /\ \E p \in Procs :
       sweep[p].pc = "unlink" /\ sweep[p].cur = f /\ sweep'[p] # sweep[p]
InputInUse(r) == req[r].pc = "transform"
OutputInUse(r) ==
  /\ req[r].saved
  /\ req[r].pc \in {"check_output", "fin_in_exists", "fin_in_unlink",
                     "fin_out_exists", "fin_out_unlink", "serve"}
C13_SweepSparesArtifactsInUse ==
  [][\A r \in AllReqs :
       /\ ~(InputInUse(r) /\ SweptAway(req[r].input_path))
       /\ ~(OutputInUse(r) /\ SweptAway(req[r].output_path))]_vars

\* C14: when a sweep has returned, every file of the three areas that is
\* older than the sweep's threshold is one whose delete failed in that
\* sweep: nothing old was passed over, whatever failed before it.
Areas == {UPLOAD_DIR, OUTPUT_DIR, TEMP_DIR}
SweepOver(p) == sweep[p].pc = "idle" /\ sweep[p].ran
C14_SweepReachesEveryOldFile ==
  \A p \in Procs :
    SweepOver(p) =>
      \A f \in DOMAIN disk :
        (DirOf(f) \in Areas /\ disk[f].mtime < sweep[p].threshold) =>
          f \in sweep[p].unlinkFailed
C14_Witness ==
  \E p \in Procs :
    /\ SweepOver(p)
    /\ \E f \in sweep[p].unlinkFailed : Exists(disk, f) /\ DirOf(f) = UPLOAD_DIR
    /\ \E g \in sweep[p].removed : DirOf(g) = TEMP_DIR

\* C18: a step of a sweep removes at most the file it is about, only if
\* that file is in one of the three areas and strictly older than the
\* threshold, which is the time the sweep began minus 5 minutes and does
\* not change while the sweep runs; every other file stays as it is.
C18_SweepDeletesOnlyOlderFiles ==
  [][\A p \in Procs :
       sweep'[p] # sweep[p] =>
         /\ sweep[p].pc = "idle" => (sweep'[p].threshold = now - 5 /\ disk' = disk)
         /\ sweep[p].pc # "idle" => sweep'[p].threshold = sweep[p].threshold
         /\ DOMAIN disk' \subseteq DOMAIN disk
         /\ \A f \in DOMAIN disk :
              IF f \in DOMAIN disk'
              THEN disk'[f] = disk[f]
              ELSE /\ f = sweep[p].cur
                   /\ DirOf(f) \in {"uploads", "outputs", "temp"}
                   /\ disk[f].mtime < sweep[p].threshold]_vars
C18_Witness ==
  \E p \in Procs :
    /\ SweepOver(p)
    /\ Exists(disk, StrayOutside)
    /\ Exists(disk, StrayTemp) /\ disk[StrayTemp].mtime = sweep[p].threshold
    /\ \E r \in AllReqs : Exists(disk, req[r].input_path)
                           /\ disk[req[r].input_path].mtime > sweep[p].threshold

\* C15: a request one of whose unlink calls found the file already deleted
\* by a sweep is answered exactly as its conversion went (200 with the
\* document after a success, 500 after a failure), once, and the file both
\* were after is gone.
Raced(r) == req[r].delRaised /\ ~req[r].delFailed
RacedPath(r) ==
  IF "output" \in req[r].disposeTried THEN req[r].output_path ELSE req[r].input_path
SaveExceptionDetail ==
  ErrorResponse(OuterExcept(HTTPException(500, ProcessingDetail("storing_output")))).detail
PassedCheck(r) == req[r].pc = "check_output" /\ req'[r].pc # "check_output"
C16_Gate ==
  \A r \in AllReqs :
    PassedCheck(r) =>
      /\ req[r].saved
      /\ IF Exists(disk, req[r].output_path)
         THEN req'[r].pending = "return" /\ req'[r].failed = "none"
         ELSE req'[r].pending = "http500" /\ req'[r].failed = "missing_output"
C16_Outcome ==
  \A r \in AllReqs :
    /\ req[r].pending = "return" => (req[r].saved /\ req[r].failed = "none")
    /\ (Finished(r) /\ req[r].failed = "missing_output") =>
         /\ Len(req[r].responses) = 1
         /\ req[r].responses[1].status = 500
         /\ req[r].responses[1].body = NoBody
         /\ req[r].responses[1].detail # SaveExceptionDetail
C16_MissingOutputIsServerError == []C16_Outcome /\ [][C16_Gate]_vars
C16_Witness ==
  \E r \in AllReqs :
    /\ Finished(r) /\ req[r].saved /\ req[r].failed = "missing_output"
    /\ req[r].responses[1].status = 500

Handled(p) ==
  \/ p \in AllReqs /\ req[p].pc # "idle"
  \/ sweep[p].pc # "idle"
  \/ sweep[p].ran
C17_State ==
  /\ (\E p \in Procs : Handled(p)) => Up
  /\ boot.pc = "failed" => \A p \in Procs : ~Handled(p)
  /\ Up => \A d \in Areas :
             /\ d \in boot.dirs
             /\ d \in boot.probed
             /\ d \notin boot.readonly
             /\ ~Exists(disk, ProbeFile(d))
C17_Step ==
  boot' # boot =>
    /\ boot.dirs \subseteq boot'.dirs
    /\ boot'.readonly = boot.readonly
    /\ boot.pc \in {"up", "failed"} => FALSE
    /\ (boot.pc = "mkdir" /\ SetupDirs[boot.i] \in boot.dirs) =>
         (boot'.dirs = boot.dirs /\ disk' = disk)
    /\ \A f \in DOMAIN disk :
         f \notin {ProbeFile(d) : d \in Areas} =>
           (f \in DOMAIN disk' /\ disk'[f] = disk[f])
C17_StartupProbesEveryArea == []C17_State /\ [][C17_Step]_vars
C17_Witness ==
  /\ Up
  /\ Exists(disk, StrayTemp)
  /\ \E r \in AllReqs : Finished(r) /\ req[r].stored

====
